---- MODULE Spec2Model ----
(***************************************************************************)
(* DiscretePlanner of home_robot/navigation_planner/discrete_planner.py as *)
(* a state machine: the persistent planner fields, reset and plan, with    *)
(* _get_short_term_goal and _check_collision computed as the code computes *)
(* them.  Lengths are integers in centimetres (the code's metres * 100),   *)
(* angles are integers in hundredths of a degree, and grids are functions  *)
(* from cells <<row, col>> to numbers.                                     *)
(***************************************************************************)
EXTENDS Integers, Sequences, FiniteSets, TLC

\* ------------------------------------------------------------------------
\* Configuration fixed at construction (DiscretePlanner.__init__)
\* ------------------------------------------------------------------------
MapSizeCm == 150
MapResolution == 25
TurnAngle == 30
CollisionThresholdCm == 20
StepSize == 2
MinGoalDistanceCm == 60
AgentCellRadius == 1
\* side of the local grids handed to plan (obstacle_map.shape)
LocalSize == 4

\* self.map_shape: cells per side of the global maps
MapCells == MapSizeCm \div MapResolution

\* ------------------------------------------------------------------------
\* Bounds of the model
\* ------------------------------------------------------------------------
\* plan is not called once the cycle counter has reached this value
MaxTimestep == 5
\* the same cap for the closed-loop orientation runs
ConvergeTimestep == 9

\* ------------------------------------------------------------------------
\* Arithmetic helpers
\* ------------------------------------------------------------------------
Abs(n) == IF n < 0 THEN -n ELSE n

Min2(a, b) == IF a < b THEN a ELSE b

Max2(a, b) == IF a > b THEN a ELSE b

\* Python's int(): truncation toward zero of n / d, d > 0
TruncDiv(n, d) == IF n >= 0 THEN n \div d ELSE -((-n) \div d)

SetMax(S) == CHOOSE m \in S : \A n \in S : n <= m

SetMin(S) == CHOOSE m \in S : \A n \in S : m <= n

\* the same function / the same set, with every element computed once
Eager(f) == f @@ << >>

EagerSet(S) == DOMAIN Eager([c \in S |-> 0])

\* a[lo:hi] on an axis of length n: the indices Python's slice selects
PySlice(lo, hi, n) ==
  LET norm(i) == IF i < 0 THEN Max2(i + n, 0) ELSE Min2(i, n)
  IN  EagerSet({ i \in 0..(n - 1) : norm(lo) <= i /\ i < norm(hi) })

\* ------------------------------------------------------------------------
\* Grids
\* ------------------------------------------------------------------------
Grid(n) == (0..(n - 1)) \X (0..(n - 1))

LocalCells == Grid(LocalSize)

PaddedCells == Grid(LocalSize + 2)

GlobalCells == Grid(MapCells)

\* row-major order of numpy's argmin / argmax / nonzero
RowMajorLess(c, d) == c[1] < d[1] \/ (c[1] = d[1] /\ c[2] < d[2])

FirstCell(S) == CHOOSE c \in S : \A d \in S : c = d \/ RowMajorLess(c, d)

\* the cells of a grid holding 1
Ones(g) == EagerSet({ c \in DOMAIN g : g[c] = 1 })

\* np.zeros(shape)
Zeros(cells) == [c \in cells |-> 0]

add_boundary(mat, value) ==
  Eager([c \in PaddedCells |->
     IF c[1] \in 1..LocalSize /\ c[2] \in 1..LocalSize
     THEN mat[<<c[1] - 1, c[2] - 1>>]
     ELSE value])

remove_boundary(mat) ==
  Eager([c \in LocalCells |-> mat[<<c[1] + 1, c[2] + 1>>]])

\* skimage.morphology.disk(r): the offsets of the structuring element
disk(r) == { o \in (-r..r) \X (-r..r) : o[1] * o[1] + o[2] * o[2] <= r * r }

\* binary dilation of the set of cells S by disk(r) inside `cells`
Dilate(S, r, cells) ==
  EagerSet({ c \in cells : \E o \in disk(r) : <<c[1] + o[1], c[2] + o[2]>> \in S })

\* pu.threshold_poses: clamp a cell into a grid of side n
threshold_poses(c, n) ==
  << Min2(Max2(0, c[1]), n - 1), Min2(Max2(0, c[2]), n - 1) >>

\* ------------------------------------------------------------------------
\* Angles (hundredths of a degree) and distances
\* ------------------------------------------------------------------------
\* degrees(atan(a / b)) for 0 <= a <= b, b > 0, to the nearest hundredth
OctantAngle(a, b) ==
  IF a = 0 THEN 0
  ELSE IF a = b THEN 4500
  ELSE IF 2 * a = b THEN 2657
  ELSE IF 3 * a = b THEN 1843
  ELSE IF 3 * a = 2 * b THEN 3369
  ELSE IF 4 * a = b THEN 1404
  ELSE IF 4 * a = 3 * b THEN 3687
  ELSE IF 5 * a = b THEN 1131
  ELSE IF 5 * a = 2 * b THEN 2180
  ELSE IF 5 * a = 3 * b THEN 3096
  ELSE 3866

\* math.degrees(math.atan2(y, x)) for integers |y|, |x| <= 5
Atan2Deg(y, x) ==
  LET ay == Abs(y)
      ax == Abs(x)
      q  == IF ay <= ax THEN OctantAngle(ay, ax) ELSE 9000 - OctantAngle(ax, ay)
  IN  IF x = 0 /\ y = 0 THEN 0
      ELSE IF x = 0 THEN (IF y > 0 THEN 9000 ELSE -9000)
      ELSE IF x > 0 THEN (IF y >= 0 THEN q ELSE -q)
      ELSE (IF y >= 0 THEN 18000 - q ELSE -(18000 - q))

\* pu.normalize_angle: wrap into (-180, 180] degrees
normalize_angle(a) ==
  LET m == a % 36000 IN IF m > 18000 THEN m - 36000 ELSE m

\* 1000 * cos and 1000 * sin of a heading that is a multiple of 30 degrees
Cos1000(deg) ==
  LET d == deg % 360
  IN  CASE d = 0 -> 1000 [] d = 30 -> 866 [] d = 60 -> 500 [] d = 90 -> 0
        [] d = 120 -> -500 [] d = 150 -> -866 [] d = 180 -> -1000
        [] d = 210 -> -866 [] d = 240 -> -500 [] d = 270 -> 0
        [] d = 300 -> 500 [] OTHER -> 866

Sin1000(deg) == Cos1000(deg - 90)

\* squared length of a cell offset
CellDist2(c, d) == (c[1] - d[1]) * (c[1] - d[1]) + (c[2] - d[2]) * (c[2] - d[2])

\* np.linalg.norm(c - d) * map_resolution < limit, all in centimetres
MetricBelow(c, d, limit) ==
  CellDist2(c, d) * MapResolution * MapResolution < limit * limit

\* np.linalg.norm(c - d) * map_resolution > limit
MetricAbove(c, d, limit) ==
  CellDist2(c, d) * MapResolution * MapResolution > limit * limit

\* ------------------------------------------------------------------------
\* Geodesic distance engine (FMMPlanner)
\* ------------------------------------------------------------------------
Adjacent(c, d) == Abs(c[1] - d[1]) + Abs(c[2] - d[2]) = 1

RECURSIVE Wavefront(_, _, _, _)
\* the cells the front reaches, each with its step count from the seeds
Wavefront(free, layer, reached, d) ==
  IF layer = {} THEN reached
  ELSE LET next == EagerSet({ c \in free : c \notin DOMAIN reached
                                           /\ \E n \in layer : Adjacent(c, n) })
       IN  Wavefront(free, next, reached @@ [c \in next |-> d + 1], d + 1)

\* FMMPlanner.set_multi_goal: the field over the padded grid; cells the front
\* never reaches hold a value one above the largest distance reached
set_multi_goal(traversible, seeds) ==
  LET reached  == Wavefront(Ones(traversible), seeds, [c \in seeds |-> 0], 0)
      sentinel == IF seeds = {} THEN 1
                  ELSE SetMax({ reached[c] : c \in DOMAIN reached }) + 1
  IN  [ dist    |-> Eager([c \in PaddedCells |->
                       IF c \in DOMAIN reached THEN reached[c] ELSE sentinel]),
        reached |-> DOMAIN reached ]

\* FMMPlanner._find_nearest_to_multi_goal: the traversable cell nearest to the
\* mask (a mask cell itself when it is traversable), in padded coordinates
find_nearest_to_multi_goal(traversible, goal) ==
  LET field == set_multi_goal([c \in PaddedCells |-> 1], Ones(goal))
      cand  == Ones(traversible)
      best  == SetMin({ field.dist[c] : c \in cand })
  IN  FirstCell({ c \in cand : field.dist[c] = best })

\* FMMPlanner.get_short_term_goal: descend the field from `state` for at
\* most step_size cells
get_short_term_goal(field, state) ==
  LET window == { c \in PaddedCells : CellDist2(c, state) <= StepSize * StepSize }
      best   == SetMin({ field.dist[c] : c \in window })
  IN  [ stg    |-> FirstCell({ c \in window : field.dist[c] = best }),
        replan |-> state \notin field.reached,
        stop   |-> state \in field.reached /\ field.dist[state] = 0 ]

\* ------------------------------------------------------------------------
\* Short-term goal resolver (DiscretePlanner._get_short_term_goal)
\* ------------------------------------------------------------------------
\* the planning window's view of a global map: map[gx1:gx2, gy1:gy2][r, c]
WindowCell(win, c) == << win[1] + c[1], win[2] + c[2] >>

\* Traversible without line 351: visited cells are not forced traversable
TraversibleAgentBoxOnly(obstacle_map, start, win, cmap, vmap, radius) ==
  LET dilated == Dilate(Ones(obstacle_map), radius, LocalCells)
      rows    == PySlice(start[1] - AgentCellRadius,
                         start[1] + AgentCellRadius + 1, LocalSize)
      cols    == PySlice(start[2] - AgentCellRadius,
                         start[2] + AgentCellRadius + 1, LocalSize)
  IN  Eager([c \in LocalCells |->
         IF c[1] \in rows /\ c[2] \in cols THEN 1
         ELSE IF cmap[WindowCell(win, c)] = 1 THEN 0
         ELSE IF c \in dilated THEN 0 ELSE 1])

\* traversible = 1 - dilated_obstacles, then the collision, visited and agent
\* overrides in the code's order (a later write wins)
Traversible(obstacle_map, start, win, cmap, vmap, radius) ==
  LET dilated == Dilate(Ones(obstacle_map), radius, LocalCells)
      rows    == PySlice(start[1] - AgentCellRadius,
                         start[1] + AgentCellRadius + 1, LocalSize)
      cols    == PySlice(start[2] - AgentCellRadius,
                         start[2] + AgentCellRadius + 1, LocalSize)
  IN  Eager([c \in LocalCells |->
         IF c[1] \in rows /\ c[2] \in cols THEN 1
         ELSE IF vmap[WindowCell(win, c)] = 1 THEN 1
         ELSE IF cmap[WindowCell(win, c)] = 1 THEN 0
         ELSE IF c \in dilated THEN 0 ELSE 1])

\* the closest-goal mask: where goal_map_ * fmm_dist_ attains its minimum,
\* zeros of both factors replaced by 10000, the boundary frame removed
ClosestGoalMap(traversible, goal_map, start) ==
  LET vis   == set_multi_goal(traversible, {start})
      big(v) == IF v = 0 THEN 10000 ELSE v
      prod  == Eager([c \in PaddedCells |-> big(goal_map[c]) * big(vis.dist[c])])
      least == SetMin({ prod[c] : c \in PaddedCells })
  IN  remove_boundary([c \in PaddedCells |-> IF prod[c] = least THEN 1 ELSE 0])

\* StopOverride with the distance left in cells, not scaled by map_resolution
StopOverrideInCells(start, closest_goal_pt) ==
  CellDist2(start, closest_goal_pt) < MinGoalDistanceCm * MinGoalDistanceCm

\* stop = distance_to_goal_cm < self.min_goal_distance_cm
StopOverride(start, closest_goal_pt) ==
  MetricBelow(start, closest_goal_pt, MinGoalDistanceCm)

\* replan = distance_nav_to_goal_cm > self.min_goal_distance_cm
ReplanOverride(start, navigable_goal) ==
  MetricAbove(start, navigable_goal, MinGoalDistanceCm)

\* one run of _get_short_term_goal; `goal` is the unpadded goal or frontier map
GetShortTermGoal(obstacle_map, goal, start, win, plan_to_dilated_goal, cmap, vmap, radius, goal_radius) ==
  LET traversible == add_boundary(Traversible(obstacle_map, start, win, cmap, vmap, radius), 1)
      goal_map == add_boundary(goal, 0)
      navigable_goal == find_nearest_to_multi_goal(traversible, goal_map)
      seeds == IF plan_to_dilated_goal
               THEN Dilate(Ones(goal_map), goal_radius, PaddedCells)
               ELSE {navigable_goal}
      field == set_multi_goal(traversible, seeds)
      g == get_short_term_goal(field, << start[1] + 1, start[2] + 1 >>)
      closest_goal_map == ClosestGoalMap(traversible, goal_map, start)
      closest == Ones(closest_goal_map)
      closest_goal_pt == IF closest = {} THEN <<0, 0>> ELSE FirstCell(closest)
  IN  [ short_term_goal  |-> << g.stg[1] - 1, g.stg[2] - 1 >>,
        closest_goal_map |-> closest_goal_map,
        replan |-> IF plan_to_dilated_goal THEN g.replan
                   ELSE ReplanOverride(start, navigable_goal),
        stop   |-> IF plan_to_dilated_goal THEN g.stop
                   ELSE StopOverride(start, closest_goal_pt),
        goal_pt     |-> closest_goal_pt,
        traversible |-> traversible,
        goal_map    |-> goal_map ]

\* ------------------------------------------------------------------------
\* Collision detector (DiscretePlanner._check_collision)
\* ------------------------------------------------------------------------
\* abs(x1 - x2) < 0.05 and abs(y1 - y2) < 0.05
IsStall(last, curr) == Abs(last[1] - curr[1]) < 5 /\ Abs(last[2] - curr[2]) < 5

\* IsCollision without the test of line 467: every run counts as a collision
AlwaysCollision(last, curr) == TRUE

\* pu.get_l2_distance(x1, x2, y1, y2) < self.collision_threshold
IsCollision(last, curr) ==
  (last[1] - curr[1]) * (last[1] - curr[1])
    + (last[2] - curr[2]) * (last[2] - curr[2])
    < CollisionThresholdCm * CollisionThresholdCm

\* NextColWidth without line 461: the width is not clamped to 5
NextColWidthUnclamped(width, stalled) == IF stalled THEN width + 2 ELSE 1

\* self.col_width after the stall test
NextColWidth(width, stalled) == IF stalled THEN Min2(width + 2, 5) ELSE 1

\* Footprint with the test of line 458 made after the clamp of line 461
FootprintAfterClamp(width, stalled) ==
  IF stalled /\ Min2(width + 2, 5) = 7 THEN [length |-> 4, buf |-> 3]
  ELSE [length |-> 2, buf |-> 4]

\* the footprint's length and rearward offset for this run
Footprint(width, stalled) ==
  IF stalled /\ width + 2 = 7 THEN [length |-> 4, buf |-> 3]
  ELSE [length |-> 2, buf |-> 4]

\* FootprintCell without line 486: the indices are not clamped into the map
FootprintCellUnclamped(last, i, j, buf, width) ==
  LET wx == last[1] * 1000
            + 5 * ((i + buf) * Cos1000(last[3]) + (j - width \div 2) * Sin1000(last[3]))
      wy == last[2] * 1000
            + 5 * ((i + buf) * Sin1000(last[3]) - (j - width \div 2) * Cos1000(last[3]))
  IN  << TruncDiv(wy, MapResolution * 1000), TruncDiv(wx, MapResolution * 1000) >>

\* the CollisionMap cell of footprint point (i, j): metric point to indices,
\* clamped into the map
FootprintCell(last, i, j, buf, width) ==
  LET wx == last[1] * 1000
            + 5 * ((i + buf) * Cos1000(last[3]) + (j - width \div 2) * Sin1000(last[3]))
      wy == last[2] * 1000
            + 5 * ((i + buf) * Sin1000(last[3]) - (j - width \div 2) * Cos1000(last[3]))
  IN  threshold_poses(<< TruncDiv(wy, MapResolution * 1000),
                         TruncDiv(wx, MapResolution * 1000) >>, MapCells)

\* PaintCell onto a fresh map: only this cycle's footprint stays set
PaintCellFresh(cmap, cells) ==
  Eager([c \in DOMAIN cmap |-> IF c \in cells THEN 1 ELSE 0])

\* self.collision_map[r, c] = 1
PaintCell(cmap, cells) ==
  Eager([c \in DOMAIN cmap |-> IF c \in cells THEN 1 ELSE cmap[c]])

CheckCollision(last, curr, width, cmap) ==
  LET stalled == IsStall(last, curr)
      fp      == Footprint(width, stalled)
      w       == NextColWidth(width, stalled)
      hit     == IsCollision(last, curr)
      cells   == IF hit
                 THEN EagerSet({ FootprintCell(last, i, j, fp.buf, w) :
                                   i \in 0..(fp.length - 1), j \in 0..(w - 1) })
                 ELSE {}
  IN  [ col_width |-> w, collision_map |-> PaintCell(cmap, cells),
        ran |-> TRUE, stalled |-> stalled, painted |-> hit,
        width |-> w, length |-> fp.length, buf |-> fp.buf, cells |-> cells ]

\* a cycle that does not run the detector
NoCollisionCheck(width, cmap) ==
  [ col_width |-> width, collision_map |-> cmap,
    ran |-> FALSE, stalled |-> FALSE, painted |-> FALSE,
    width |-> 0, length |-> 0, buf |-> 0, cells |-> {} ]

\* ------------------------------------------------------------------------
\* Planner state
\* ------------------------------------------------------------------------
VARIABLES
  \* the outcome of __init__: map_size_cm, map_resolution, step_size, map_shape
  construction,
  \* configuration fields set by __init__
  start_obs_dilation_selem_radius,
  min_obs_dilation_selem_radius,
  goal_dilation_selem_radius,
  \* fields set by reset and mutated by plan
  collision_map,
  visited_map,
  col_width,
  last_pose,
  curr_pose,
  last_action,
  timestep,
  curr_obs_dilation_selem_radius,
  \* the caller: the episode's perception grids, window and dilation-mode flag
  world,
  \* history: what the last operation did, plan calls and consecutive stalls
  \* since the last reset
  cycle,
  ncalls,
  stall_run

config == << construction, start_obs_dilation_selem_radius,
             min_obs_dilation_selem_radius, goal_dilation_selem_radius >>

fields == << collision_map, visited_map, col_width, last_pose, curr_pose,
             last_action, timestep, curr_obs_dilation_selem_radius >>

vars == << config, fields, world, cycle, ncalls, stall_run >>

\* the value of an integer field that __init__ left at None
Unset == -1

\* the value of a grid or pose field that __init__ left at None
None == << >>

Actions == {"MOVE_FORWARD", "TURN_LEFT", "TURN_RIGHT", "STOP"}

\* np.rint of a prediction given in tenths (0.5 rounds to the even 0)
Rint(v) == IF v > 5 THEN 1 ELSE 0

\* ------------------------------------------------------------------------
\* Inputs the model draws from
\* ------------------------------------------------------------------------
GridOf(S) == [c \in LocalCells |-> IF c \in S THEN 1 ELSE 0]

\* an obstacle prediction: `solid` cells at 1.0, `likely` at 0.7, `faint` at 0.5
Prediction(solid, likely, faint) ==
  [c \in LocalCells |-> IF c \in solid THEN 10
                        ELSE IF c \in likely THEN 7
                        ELSE IF c \in faint THEN 5 ELSE 0]

OpenRoom == Prediction({}, {}, {<<0, 0>>})

WalledRoom == Prediction({<<0, 2>>, <<1, 2>>}, {<<2, 2>>}, {<<3, 2>>})

CornerBlock == Prediction({<<0, 0>>, <<3, 3>>}, {<<0, 1>>}, {})

Worlds ==
  { [obstacle_map |-> OpenRoom, goal_map |-> GridOf({<<1, 3>>, <<3, 1>>}),
     frontier_map |-> GridOf({<<0, 3>>}), window |-> <<0, 0>>,
     use_dilation_for_stg |-> FALSE],
    [obstacle_map |-> OpenRoom, goal_map |-> GridOf({<<0, 0>>}),
     frontier_map |-> GridOf({<<3, 3>>}), window |-> <<0, 0>>,
     use_dilation_for_stg |-> TRUE],
    [obstacle_map |-> WalledRoom, goal_map |-> GridOf({<<1, 3>>}),
     frontier_map |-> GridOf({<<3, 0>>, <<3, 3>>}), window |-> <<1, 2>>,
     use_dilation_for_stg |-> FALSE],
    [obstacle_map |-> CornerBlock, goal_map |-> GridOf({<<0, 0>>}),
     frontier_map |-> GridOf({}), window |-> <<2, 0>>,
     use_dilation_for_stg |-> TRUE],
    [obstacle_map |-> CornerBlock, goal_map |-> GridOf({}),
     frontier_map |-> GridOf({<<0, 3>>}), window |-> <<0, 1>>,
     use_dilation_for_stg |-> FALSE],
    [obstacle_map |-> OpenRoom, goal_map |-> GridOf({<<0, 0>>}),
     frontier_map |-> GridOf({<<3, 3>>}), window |-> <<0, 0>>,
     use_dilation_for_stg |-> FALSE] }

\* (initial, minimum, goal) dilation radii a planner is constructed with
Configs ==
  { [start |-> 2, min |-> 1, goal |-> 3],
    [start |-> 1, min |-> 1, goal |-> 1],
    [start |-> 0, min |-> 1, goal |-> 1] }

\* poses (x cm, y cm, heading degrees) of an episode's first plan call
StartPoses ==
  { <<62, 62, 30>>, <<12, 12, 0>>, <<87, 62, 210>>, <<-30, 200, 180>>,
    <<62, 12, 90>>, <<137, 140, 270>> }

\* the pose the robot reports after carrying out `action` from `pose`
PoseAfter(pose, action, starts) ==
  CASE action = "MOVE_FORWARD" ->
         { << pose[1] + TruncDiv(d * Cos1000(pose[3]), 1000),
              pose[2] + TruncDiv(d * Sin1000(pose[3]), 1000), pose[3] >> :
           d \in {3, 10, 25} }
    [] action = "TURN_LEFT"  -> { << pose[1], pose[2], (pose[3] + TurnAngle) % 360 >> }
    [] action = "TURN_RIGHT" -> { << pose[1], pose[2], (pose[3] - TurnAngle) % 360 >> }
    [] action = "STOP" -> { pose }
    [] OTHER -> starts

\* ------------------------------------------------------------------------
\* Operations
\* ------------------------------------------------------------------------
\* the record of an operation that is not a completed plan call
NoCycle(kind) ==
  [ kind |-> kind, before |-> timestep, found_goal |-> FALSE, use_dilation_for_stg |-> FALSE,
    start |-> <<0, 0>>, window |-> <<0, 0>>,
    replan |-> FALSE, stop |-> FALSE, goal_pt |-> <<0, 0>>,
    fallback |-> FALSE, runs |-> << >>,
    found_goal_at_decision |-> FALSE, stop_at_decision |-> FALSE,
    relative_angle |-> 0, relative_angle_goal |-> 0, goal_sample |-> << >>,
    action |-> "NONE", collision |-> NoCollisionCheck(0, << >>).ran,
    stalled |-> FALSE, painted |-> FALSE, width |-> 0, length |-> 0,
    buf |-> 0, cells |-> {} ]

\* Python's a // b for a non-zero divisor
PyFloorDiv(a, b) == IF b > 0 THEN a \div b ELSE (0 - a) \div (0 - b)

\* what __init__ does with map_size_cm, map_resolution and step_size: it stores
\* them unchecked; only the division of line 79 can raise (ZeroDivisionError)
Construct(map_size_cm, map_resolution, step_size) ==
  [ status |-> IF map_resolution = 0 THEN "raised" ELSE "constructed",
    map_size_cm |-> map_size_cm,
    map_resolution |-> map_resolution,
    step_size |-> step_size,
    map_shape |-> IF map_resolution = 0 THEN 0
                  ELSE PyFloorDiv(map_size_cm, map_resolution) ]

\* state after DiscretePlanner.__init__
Init ==
  /\ construction = Construct(MapSizeCm, MapResolution, StepSize)
  /\ \E c \in Configs :
       /\ start_obs_dilation_selem_radius = c.start
       /\ min_obs_dilation_selem_radius = c.min
       /\ goal_dilation_selem_radius = c.goal
  /\ collision_map = None
  /\ visited_map = None
  /\ col_width = Unset
  /\ last_pose = None
  /\ curr_pose = None
  /\ last_action = "NONE"
  /\ timestep = Unset
  /\ curr_obs_dilation_selem_radius = Unset
  /\ world \in Worlds
  /\ cycle = NoCycle("init")
  /\ ncalls = 0
  /\ stall_run = 0

\* ResetTo without line 113: last_action keeps the previous episode's value
ResetKeepingAction(worlds) ==
  /\ collision_map' = Zeros(GlobalCells)
  /\ visited_map' = Zeros(GlobalCells)
  /\ col_width' = 1
  /\ last_pose' = None
  /\ curr_pose' = << MapSizeCm \div 2, MapSizeCm \div 2, 0 >>
  /\ last_action' = last_action
  /\ timestep' = 1
  /\ curr_obs_dilation_selem_radius' = start_obs_dilation_selem_radius
  /\ world' \in worlds
  /\ cycle' = [ kind |-> "reset", before |-> timestep, found_goal |-> FALSE,
                use_dilation_for_stg |-> FALSE,
                start |-> <<0, 0>>, window |-> <<0, 0>>,
                replan |-> FALSE, stop |-> FALSE, goal_pt |-> <<0, 0>>,
                fallback |-> FALSE, runs |-> << >>,
                found_goal_at_decision |-> FALSE, stop_at_decision |-> FALSE,
                relative_angle |-> 0, relative_angle_goal |-> 0,
                goal_sample |-> << >>, action |-> "NONE", collision |-> FALSE,
                stalled |-> FALSE, painted |-> FALSE, width |-> 0, length |-> 0,
                buf |-> 0, cells |-> {} ]
  /\ ncalls' = 0
  /\ stall_run' = 0
  /\ UNCHANGED config

\* DiscretePlanner.reset; the caller starts an episode in one of `worlds`
ResetTo(worlds) ==
  /\ collision_map' = Zeros(GlobalCells)
  /\ visited_map' = Zeros(GlobalCells)
  /\ col_width' = 1
  /\ last_pose' = None
  /\ curr_pose' = << MapSizeCm \div 2, MapSizeCm \div 2, 0 >>
  /\ last_action' = "NONE"
  /\ timestep' = 1
  /\ curr_obs_dilation_selem_radius' = start_obs_dilation_selem_radius
  /\ world' \in worlds
  /\ cycle' = NoCycle("reset")
  /\ ncalls' = 0
  /\ stall_run' = 0
  /\ UNCHANGED config

Reset == ResetTo(Worlds)

\* StartCell without line 164: an outside index wraps around the grid, as a
\* Python index would, in place of being clamped
StartCellWrapped(sensor_pose) ==
  << TruncDiv(sensor_pose[2] - sensor_pose[4] * MapResolution, MapResolution) % LocalSize,
     TruncDiv(sensor_pose[1] - sensor_pose[6] * MapResolution, MapResolution) % LocalSize >>

\* start: the pose's cell in the local grid, clamped into it
StartCell(sensor_pose) ==
  threshold_poses(
    << TruncDiv(sensor_pose[2] - sensor_pose[4] * MapResolution, MapResolution),
       TruncDiv(sensor_pose[1] - sensor_pose[6] * MapResolution, MapResolution) >>,
    LocalSize)

\* MarkVisited that rebuilds the map: only the current cell stays set
MarkVisitedOnly(vmap, win, start) ==
  Eager([c \in DOMAIN vmap |-> IF c = WindowCell(win, start) THEN 1 ELSE 0])

\* self.visited_map[gx1:gx2, gy1:gy2][start[0]:start[0]+1, start[1]:start[1]+1] = 1
MarkVisited(vmap, win, start) ==
  LET rows == PySlice(start[1], start[1] + 1, LocalSize)
      cols == PySlice(start[2], start[2] + 1, LocalSize)
  IN  Eager([c \in DOMAIN vmap |->
         IF \E r \in rows, k \in cols : c = WindowCell(win, <<r, k>>)
         THEN 1 ELSE vmap[c]])

\* ClearCollisionMap without line 214: the collision map is kept
KeepCollisionMap(cmap) == cmap

\* self.collision_map *= 0
ClearCollisionMap(cmap) == Eager([c \in DOMAIN cmap |-> cmap[c] * 0])

\* ReduceDilation without the test of line 216: the radius is not floored
ReduceDilationNoFloor(radius, floor) == radius - 1

\* the dilation radius after a failed first resolver run
ReduceDilation(radius, floor) == IF radius > floor THEN radius - 1 ELSE radius

\* self.timestep += 1, once per resolver run
AdvanceTimestep(t, runs) == t + runs

\* Decide with >= and <= for the strict comparisons of lines 288-302
DecideInclusive(found_goal, stop, relative_angle, relative_angle_goal) ==
  IF ~(found_goal /\ stop)
  THEN IF 2 * relative_angle >= TurnAngle * 100 THEN "TURN_RIGHT"
       ELSE IF 2 * relative_angle <= -(TurnAngle * 100) THEN "TURN_LEFT"
       ELSE "MOVE_FORWARD"
  ELSE IF 3 * relative_angle_goal >= 2 * TurnAngle * 100 THEN "TURN_RIGHT"
       ELSE IF 3 * relative_angle_goal <= -(2 * TurnAngle * 100) THEN "TURN_LEFT"
       ELSE "STOP"

\* the deterministic local policy at the end of plan
Decide(found_goal, stop, relative_angle, relative_angle_goal) ==
  IF ~(found_goal /\ stop)
  THEN IF 2 * relative_angle > TurnAngle * 100 THEN "TURN_RIGHT"
       ELSE IF 2 * relative_angle < -(TurnAngle * 100) THEN "TURN_LEFT"
       ELSE "MOVE_FORWARD"
  ELSE IF 3 * relative_angle_goal > 2 * TurnAngle * 100 THEN "TURN_RIGHT"
       ELSE IF 3 * relative_angle_goal < -(2 * TurnAngle * 100) THEN "TURN_LEFT"
       ELSE "STOP"

\* FoundGoalAtDecision without line 247: found_goal survives the fallback
FoundGoalKept(found_goal, fallback) == found_goal

\* found_goal as the local policy reads it: the frontier fallback sets it False
FoundGoalAtDecision(found_goal, fallback) == found_goal /\ ~fallback

\* normalize_angle(angle_agent - degrees(atan2(to[0] - start[0], to[1] - start[1])))
RelativeAngle(heading, start, to) ==
  normalize_angle(normalize_angle(heading * 100)
                  - normalize_angle(Atan2Deg(to[1] - start[1], to[2] - start[2])))

\* the record plan leaves of a cycle
CycleRecord(kind, found_goal, use_dilation_for_stg, start, win, first, fallback, runs, stop, relative_angle, relative_angle_goal, goal_sample, action, col) ==
  [ kind |-> kind, before |-> timestep, found_goal |-> found_goal,
    use_dilation_for_stg |-> use_dilation_for_stg,
    start |-> start, window |-> win,
    replan |-> first.replan, stop |-> first.stop,
    goal_pt |-> first.goal_pt, fallback |-> fallback,
    runs |-> [i \in DOMAIN runs |->
                [traversible |-> runs[i].traversible,
                 goal_map |-> runs[i].goal_map]],
    found_goal_at_decision |-> FoundGoalAtDecision(found_goal, fallback),
    stop_at_decision |-> stop,
    relative_angle |-> relative_angle,
    relative_angle_goal |-> relative_angle_goal,
    goal_sample |-> goal_sample, action |-> action,
    collision |-> col.ran, stalled |-> col.stalled,
    painted |-> col.painted, width |-> col.width,
    length |-> col.length, buf |-> col.buf, cells |-> col.cells ]

\* ShouldCheckCollision with the test of line 178 widened to any previous action
CheckAfterAnyAction(action) == action # "NONE"

\* if self.last_action == DiscreteNavigationAction.MOVE_FORWARD
ShouldCheckCollision(action) == action = "MOVE_FORWARD"

\* DiscretePlanner.plan; each \E x \in {v} is the assignment x = v, its value
\* computed once
Plan(obstacle_in, goal_map, frontier_map, sensor_pose, found_goal, use_dilation_for_stg) ==
  \E win \in {<< sensor_pose[4], sensor_pose[6] >>},
     start \in {StartCell(sensor_pose)},
     pose \in {<< sensor_pose[1], sensor_pose[2], sensor_pose[3] >>},
     obstacle_map \in {Eager([c \in LocalCells |-> Rint(obstacle_in[c])])} :
  \E visited \in {MarkVisited(visited_map, win, start)},
     col \in {IF ShouldCheckCollision(last_action)
              THEN CheckCollision(curr_pose, pose, col_width, collision_map)
              ELSE NoCollisionCheck(col_width, collision_map)} :
  \E first \in {GetShortTermGoal(obstacle_map, goal_map, start, win,
                  use_dilation_for_stg, col.collision_map, visited,
                  curr_obs_dilation_selem_radius, goal_dilation_selem_radius)} :
  \E failed \in {first.replan /\ ~first.stop} :
  \E cleared \in {IF failed THEN ClearCollisionMap(col.collision_map)
                  ELSE col.collision_map},
     radius \in {IF failed
                 THEN ReduceDilation(curr_obs_dilation_selem_radius,
                                     min_obs_dilation_selem_radius)
                 ELSE curr_obs_dilation_selem_radius},
     fallback \in {failed /\ found_goal} :
  \E res \in {IF fallback
              THEN GetShortTermGoal(obstacle_map, frontier_map, start, win,
                     TRUE, cleared, visited, radius, goal_dilation_selem_radius)
              ELSE first} :
  \E runs \in {IF fallback THEN << first, res >> ELSE << first >>},
     relative_angle \in {RelativeAngle(pose[3], start, res.short_term_goal)},
     goals \in {Ones(res.closest_goal_map)} :
    /\ last_pose' = curr_pose
    /\ curr_pose' = pose
    /\ visited_map' = visited
    /\ col_width' = col.col_width
    /\ collision_map' = cleared
    /\ curr_obs_dilation_selem_radius' = radius
    /\ timestep' = AdvanceTimestep(timestep, Len(runs))
    /\ ncalls' = ncalls + 1
    /\ stall_run' = IF ~col.ran THEN stall_run
                    ELSE IF col.stalled THEN stall_run + 1 ELSE 0
    /\ UNCHANGED << config, world >>
    /\ IF goals = {}
       THEN \* np.random.randint(0) raises: plan ends without an action
            /\ last_action' = last_action
            /\ cycle' = CycleRecord("raised", found_goal, use_dilation_for_stg,
                          start, win, first, fallback, runs, res.stop,
                          relative_angle, 0, << >>, "NONE", col)
       ELSE \E g \in goals :
            \E relative_angle_goal \in {RelativeAngle(pose[3], start, g)} :
            \E action \in {Decide(FoundGoalAtDecision(found_goal, fallback), res.stop,
                                  relative_angle, relative_angle_goal)} :
              /\ last_action' = action
              /\ cycle' = CycleRecord("plan", found_goal, use_dilation_for_stg,
                            start, win, first, fallback, runs, res.stop,
                            relative_angle,
                            IF FoundGoalAtDecision(found_goal, fallback) /\ res.stop
                            THEN relative_angle_goal ELSE 0,
                            IF FoundGoalAtDecision(found_goal, fallback) /\ res.stop
                            THEN g ELSE << >>,
                            action, col)

\* one control cycle: the caller senses a pose and calls plan
PlanStep ==
  /\ timestep # Unset
  /\ timestep < MaxTimestep
  /\ \E xyo \in PoseAfter(curr_pose, last_action, StartPoses), found_goal \in BOOLEAN :
       Plan(world.obstacle_map, world.goal_map, world.frontier_map,
            << xyo[1], xyo[2], xyo[3], world.window[1], world.window[1] + LocalSize,
               world.window[2], world.window[2] + LocalSize >>,
            found_goal, world.use_dilation_for_stg)

Next == Reset \/ PlanStep

Spec == Init /\ [][Next]_vars

\* ------------------------------------------------------------------------
\* Closed loop near the goal: found_goal on every call, each turn carried out,
\* the episode over once STOP is returned
\* ------------------------------------------------------------------------
\* an open grid with two goal cells equally far from the agent, and with one
ConvergeWorlds ==
  { [obstacle_map |-> OpenRoom, goal_map |-> GridOf({<<1, 3>>, <<3, 1>>}),
     frontier_map |-> GridOf({<<0, 3>>}), window |-> <<0, 0>>,
     use_dilation_for_stg |-> FALSE],
    [obstacle_map |-> OpenRoom, goal_map |-> GridOf({<<1, 3>>}),
     frontier_map |-> GridOf({<<0, 3>>}), window |-> <<0, 0>>,
     use_dilation_for_stg |-> FALSE] }

\* the agent at local cell (2, 2), at every heading it can turn to
ConvergeStartPoses == { <<62, 62, h * TurnAngle>> : h \in 0..(360 \div TurnAngle - 1) }

ResetConverge == ResetTo(ConvergeWorlds)

ConvergeStep ==
  /\ timestep # Unset
  /\ timestep < ConvergeTimestep
  /\ last_action # "STOP"
  /\ world \in ConvergeWorlds
  /\ \E xyo \in PoseAfter(curr_pose, last_action, ConvergeStartPoses) :
       Plan(world.obstacle_map, world.goal_map, world.frontier_map,
            << xyo[1], xyo[2], xyo[3], world.window[1], world.window[1] + LocalSize,
               world.window[2], world.window[2] + LocalSize >>,
            TRUE, world.use_dilation_for_stg)

NextConverge == ResetConverge \/ ConvergeStep

SpecConverge == Init /\ [][NextConverge]_vars

\* ------------------------------------------------------------------------
\* Properties
\* ------------------------------------------------------------------------
\* reset has run: the planner's fields hold values
Ready == timestep # Unset

\* the last operation was a plan call (one that returned or one that raised)
Planned == cycle.kind \in {"plan", "raised"}

\* the local-grid cells the caller's goal map marks
GoalCells == { c \in LocalCells : world.goal_map[c] = 1 }

\* C1 (as stated): the dilation radius is never below the configured minimum
\* radius, for every configured initial and minimum radius.
C1_RadiusNeverBelowMinimum ==
  Ready => curr_obs_dilation_selem_radius >= min_obs_dilation_selem_radius

\* C1 (amended): after reset the dilation radius lies between
\* min(initial, minimum) and the initial radius; a plan call leaves it or
\* lowers it by one, and lowers it only from above the minimum; every other
\* change is reset setting it to the initial radius.
C1_RadiusFlooredMonotone ==
  /\ [](Ready =>
          /\ curr_obs_dilation_selem_radius
               >= Min2(start_obs_dilation_selem_radius, min_obs_dilation_selem_radius)
          /\ curr_obs_dilation_selem_radius <= start_obs_dilation_selem_radius)
  /\ [][curr_obs_dilation_selem_radius' # curr_obs_dilation_selem_radius =>
          \/ /\ cycle'.kind = "reset"
             /\ curr_obs_dilation_selem_radius' = start_obs_dilation_selem_radius
          \/ /\ cycle'.kind \in {"plan", "raised"}
             /\ curr_obs_dilation_selem_radius > min_obs_dilation_selem_radius
             /\ curr_obs_dilation_selem_radius'
                  = curr_obs_dilation_selem_radius - 1]_vars

\* a failed cycle (replan and not stop) finds the radius lowered to the floor
C1_Witness ==
  /\ cycle.kind = "plan" /\ cycle.replan /\ ~cycle.stop
  /\ ncalls >= 2
  /\ curr_obs_dilation_selem_radius = min_obs_dilation_selem_radius
  /\ curr_obs_dilation_selem_radius < start_obs_dilation_selem_radius

C3_VisitedMonotone ==
  /\ [](Ready => \A c \in GlobalCells : visited_map[c] \in {0, 1})
  /\ [][Ready /\ cycle'.kind # "reset" =>
          \A c \in GlobalCells : visited_map[c] = 1 => visited_map'[c] = 1]_vars

\* a cycle that cleared CollisionMap left a cell visited earlier still set
C3_Witness ==
  /\ cycle.kind = "plan" /\ cycle.replan /\ ~cycle.stop
  /\ \E c \in GlobalCells :
       visited_map[c] = 1 /\ c # WindowCell(cycle.window, cycle.start)

\* C4: in every traversability grid a plan call builds, the agent's clamped
\* cell is traversable.
C4_AgentCellTraversible ==
  Planned =>
    \A i \in DOMAIN cycle.runs :
      cycle.runs[i].traversible[<< cycle.start[1] + 1, cycle.start[2] + 1 >>] = 1

\* the agent stands on an edge row, on a cell the obstacle grid marks
C4_Witness ==
  /\ cycle.kind = "plan"
  /\ cycle.start[1] = 0
  /\ Rint(world.obstacle_map[cycle.start]) = 1

\* C5: after reset both maps are zero, the footprint width and the timestep
\* are 1, the radius is the initial radius and last_action is cleared; the
\* first plan call of an episode does not run the collision detector.
C5_ResetPostcondition ==
  /\ cycle.kind = "reset" =>
       /\ collision_map = Zeros(GlobalCells)
       /\ visited_map = Zeros(GlobalCells)
       /\ col_width = 1
       /\ timestep = 1
       /\ curr_obs_dilation_selem_radius = start_obs_dilation_selem_radius
       /\ last_action = "NONE"
       /\ last_pose = None
  /\ Planned /\ ncalls = 1 => ~cycle.collision

\* reset after an episode of at least two plan calls
C5_Witness == cycle.kind = "reset" /\ cycle.before >= 3

\* C6: after the k-th consecutive stall col_width is min(1 + 2k, 5), a stall
\* always paints, and the painted footprint's width is the stored col_width.
C6_ColWidthProgression ==
  Ready =>
    /\ col_width = Min2(1 + 2 * stall_run, 5)
    /\ cycle.stalled => cycle.painted
    /\ cycle.painted => cycle.width = col_width

\* the third consecutive stall: the width clamped at 5 and painted
C6_Witness == stall_run = 3 /\ col_width = 5 /\ cycle.stalled /\ cycle.painted

\* C7: after reset and n plan calls the timestep is 1 + n.
C7_TimestepOncePerCall == Ready => timestep = 1 + ncalls

\* C8: CollisionMap holds only 0 and 1; a cell goes from 1 to 0 only by reset
\* or in a plan call whose first resolver result is replan and not stop, and
\* that call leaves the whole map zero.
C8_CollisionMonotone ==
  /\ [](Ready => \A c \in GlobalCells : collision_map[c] \in {0, 1})
  /\ [](Planned /\ cycle.replan /\ ~cycle.stop => collision_map = Zeros(GlobalCells))
  /\ [][Ready /\ (\E c \in GlobalCells : collision_map[c] = 1 /\ collision_map'[c] = 0)
          => \/ cycle'.kind = "reset"
             \/ cycle'.kind \in {"plan", "raised"} /\ cycle'.replan /\ ~cycle'.stop]_vars

\* a cell painted by an earlier cycle is still set after a cycle that ran the
\* detector without painting it
C8_Witness ==
  /\ cycle.kind = "plan" /\ cycle.collision
  /\ \E c \in GlobalCells : collision_map[c] = 1 /\ c \notin cycle.cells

ConvergeBound == 180 \div TurnAngle + 1

\* C10: in the closed loop, with the agent within the minimum goal distance
\* and foundGoal on every call, STOP is returned within ConvergeBound calls.
C10_StopWithinBound == ncalls >= ConvergeBound => last_action = "STOP"

\* C11: every cell the collision detector writes lies inside CollisionMap, and
\* is set in CollisionMap unless the same cycle cleared the map.
C11_PaintInBounds ==
  Planned /\ cycle.collision =>
    /\ cycle.cells \subseteq GlobalCells
    /\ cycle.painted => cycle.cells # {}
    /\ ~(cycle.replan /\ ~cycle.stop) =>
         \A c \in cycle.cells : collision_map[c] = 1

\* the detector painted from a last pose that lies outside the map
C11_Witness ==
  /\ Planned /\ cycle.painted
  /\ \/ last_pose[1] < 0 \/ last_pose[1] >= MapSizeCm
     \/ last_pose[2] < 0 \/ last_pose[2] >= MapSizeCm

\* C12: every plan call ends by returning one of the four actions, also when
\* the closest-goal mask it samples from has no set cell.
C12_EmptyMaskHandled ==
  Planned => cycle.kind = "plan" /\ cycle.action \in Actions

\* ------------------------------------------------------------------------
\* Construction with arbitrary map and step arguments
\* ------------------------------------------------------------------------
MapSizeArgs == {100, 150, 200}

MapResolutionArgs == {-40, 0, 25, 50}

StepSizeArgs == {-1, 0, 1, 2}

\* state after DiscretePlanner.__init__ called with any of the arguments above
InitConstruct ==
  /\ \E size \in MapSizeArgs, resolution \in MapResolutionArgs, step \in StepSizeArgs :
       construction = Construct(size, resolution, step)
  /\ \E c \in Configs :
       /\ start_obs_dilation_selem_radius = c.start
       /\ min_obs_dilation_selem_radius = c.min
       /\ goal_dilation_selem_radius = c.goal
  /\ collision_map = None
  /\ visited_map = None
  /\ col_width = Unset
  /\ last_pose = None
  /\ curr_pose = None
  /\ last_action = "NONE"
  /\ timestep = Unset
  /\ curr_obs_dilation_selem_radius = Unset
  /\ world \in Worlds
  /\ cycle = NoCycle("init")
  /\ ncalls = 0
  /\ stall_run = 0

\* reset on an instance whose map_shape np.zeros accepts
ResetConstructed ==
  /\ construction.status = "constructed"
  /\ construction.map_shape >= 0
  /\ collision_map' = Zeros(Grid(construction.map_shape))
  /\ visited_map' = Zeros(Grid(construction.map_shape))
  /\ col_width' = 1
  /\ last_pose' = None
  /\ curr_pose' = << construction.map_size_cm \div 2, construction.map_size_cm \div 2, 0 >>
  /\ last_action' = "NONE"
  /\ timestep' = 1
  /\ curr_obs_dilation_selem_radius' = start_obs_dilation_selem_radius
  /\ cycle' = NoCycle("reset")
  /\ ncalls' = 0
  /\ stall_run' = 0
  /\ UNCHANGED << config, world >>

\* reset on an instance with a negative map_shape: np.zeros raises at line 104
\* before any field is assigned
ResetRaises ==
  /\ construction.status = "constructed"
  /\ construction.map_shape < 0
  /\ cycle' = NoCycle("reset_raised")
  /\ UNCHANGED << config, fields, world, ncalls, stall_run >>

NextConstruct == ResetConstructed \/ ResetRaises

SpecConstruct == InitConstruct /\ [][NextConstruct]_vars

\* C13: a non-positive map resolution or step size is rejected by __init__, so
\* no instance comes out of it and reset never succeeds on one.
C13_NonPositiveRejected ==
  (construction.map_resolution <= 0 \/ construction.step_size <= 0) =>
    construction.status = "raised" /\ ~Ready

\* C14: a plan cycle whose first resolver result is replan and not stop leaves
\* CollisionMap all zero, cells painted in the same cycle included, and lowers
\* the dilation radius by exactly 1 if it was above the minimum, else keeps it;
\* every other plan cycle keeps the radius and only adds the cells it painted
\* to CollisionMap.
C14_ClearAndReduceOnReplan ==
  [][cycle'.kind \in {"plan", "raised"} =>
       IF cycle'.replan /\ ~cycle'.stop
       THEN /\ \A c \in GlobalCells : collision_map'[c] = 0
            /\ curr_obs_dilation_selem_radius' =
                 IF curr_obs_dilation_selem_radius > min_obs_dilation_selem_radius
                 THEN curr_obs_dilation_selem_radius - 1
                 ELSE curr_obs_dilation_selem_radius
       ELSE /\ curr_obs_dilation_selem_radius' = curr_obs_dilation_selem_radius
            /\ \A c \in GlobalCells :
                 collision_map'[c] = IF c \in cycle'.cells THEN 1
                                     ELSE collision_map[c]]_vars

\* a cycle that painted collision cells and then cleared the map on a failed
\* first resolver run
C14_Witness ==
  /\ Planned /\ cycle.replan /\ ~cycle.stop
  /\ cycle.painted /\ cycle.cells # {}
  /\ \A c \in GlobalCells : collision_map[c] = 0

\* C15: a plan cycle entered with found_goal true whose first resolver result is
\* replan and not stop runs the resolver a second time, in dilated mode on the
\* frontier grid, with the cleared CollisionMap and the reduced radius, and does
\* not return STOP, whatever the second run reports.
C15_FrontierFallback ==
  Planned /\ cycle.found_goal /\ cycle.replan /\ ~cycle.stop =>
    /\ cycle.fallback /\ Len(cycle.runs) = 2
    /\ \A c \in GlobalCells : collision_map[c] = 0
    /\ \E second \in {GetShortTermGoal(
                          Eager([c \in LocalCells |-> Rint(world.obstacle_map[c])]),
                          world.frontier_map, cycle.start, cycle.window, TRUE,
                          collision_map, visited_map,
                          curr_obs_dilation_selem_radius,
                          goal_dilation_selem_radius)} :
         /\ cycle.runs[2].traversible = second.traversible
         /\ cycle.runs[2].goal_map = second.goal_map
         /\ cycle.stop_at_decision = second.stop
    /\ cycle.action # "STOP"

\* a fallback cycle whose second resolver run reported stop
C15_Witness ==
  /\ Planned /\ cycle.kind = "plan" /\ cycle.found_goal
  /\ cycle.replan /\ ~cycle.stop /\ cycle.fallback
  /\ cycle.stop_at_decision

\* C16: the collision detector runs in a plan cycle exactly when the last action
\* plan returned in this episode was MOVE_FORWARD (last_action holds that action,
\* and no action after reset); a cycle in which it does not run keeps the
\* footprint-width counter and paints no CollisionMap cell.
C16_DetectorAfterForwardOnly ==
  [][cycle'.kind \in {"plan", "raised"} =>
       /\ cycle.kind = "plan" => last_action = cycle.action
       /\ cycle.kind = "reset" => last_action = "NONE"
       /\ cycle'.collision <=> last_action = "MOVE_FORWARD"
       /\ ~cycle'.collision =>
            /\ col_width' = col_width
            /\ ~cycle'.painted /\ cycle'.cells = {}
            /\ \A c \in GlobalCells :
                 collision_map'[c] = 1 => collision_map[c] = 1]_vars

\* a cycle after a turn skipped the detector and kept a counter that an earlier
\* stall had raised
C16_Witness ==
  /\ Planned /\ ~cycle.collision /\ ncalls >= 3
  /\ col_width = 3

\* C17: in a collision-detector run whose displacement between last and current
\* pose is not below the collision threshold no CollisionMap cell is painted,
\* whatever the stall test did to the footprint-width counter; and in a run
\* whose displacement is at least 0.05 m on some axis the counter becomes 1.
C17_NoPaintAtOrAboveThreshold ==
  [][cycle'.kind \in {"plan", "raised"} /\ cycle'.collision =>
       /\ last_pose' = curr_pose
       /\ (curr_pose'[1] - curr_pose[1]) * (curr_pose'[1] - curr_pose[1])
            + (curr_pose'[2] - curr_pose[2]) * (curr_pose'[2] - curr_pose[2])
            >= CollisionThresholdCm * CollisionThresholdCm =>
              /\ ~cycle'.painted /\ cycle'.cells = {}
              /\ \A c \in GlobalCells :
                   collision_map'[c] = 1 => collision_map[c] = 1
       /\ (Abs(curr_pose'[1] - curr_pose[1]) >= 5
            \/ Abs(curr_pose'[2] - curr_pose[2]) >= 5) => col_width' = 1]_vars

\* a detector run at or above the threshold painted nothing, reset a raised
\* counter to 1 and left an earlier painted cell in place
C17_Witness ==
  /\ Planned /\ cycle.collision /\ ~cycle.painted /\ ~cycle.stalled
  /\ (curr_pose[1] - last_pose[1]) * (curr_pose[1] - last_pose[1])
       + (curr_pose[2] - last_pose[2]) * (curr_pose[2] - last_pose[2])
       >= CollisionThresholdCm * CollisionThresholdCm
  /\ col_width = 1 /\ stall_run = 0 /\ ncalls >= 3
  /\ \E c \in GlobalCells : collision_map[c] = 1

\* C18: a collision-detector run uses the extended footprint (length 4, offset 3)
\* exactly when it is a stall and the stored footprint-width counter before the
\* run is 5, which is the third and every later consecutive stall; every other
\* run uses length 2 and offset 4; the stored counter never exceeds 5.
C18_ExtendedFootprintFromThirdStall ==
  [][cycle'.kind \in {"plan", "raised"} /\ cycle'.collision =>
       /\ cycle'.stalled <=> /\ Abs(curr_pose'[1] - curr_pose[1]) < 5
                              /\ Abs(curr_pose'[2] - curr_pose[2]) < 5
       /\ IF cycle'.stalled /\ col_width = 5
          THEN cycle'.length = 4 /\ cycle'.buf = 3
          ELSE cycle'.length = 2 /\ cycle'.buf = 4
       /\ (cycle'.stalled /\ col_width = 5) <=> (cycle'.stalled /\ stall_run' >= 3)
       /\ col_width <= 5 /\ col_width' <= 5]_vars

\* the third consecutive stall used the extended footprint and painted with it
C18_Witness ==
  /\ Planned /\ cycle.collision /\ cycle.stalled /\ cycle.painted
  /\ stall_run = 3 /\ col_width = 5
  /\ cycle.length = 4 /\ cycle.buf = 3

\* C19: in every traversability grid, every in-grid cell within agent_cell_radius
\* rows and columns of the agent's cell is traversable, also for an agent cell
\* on the first or last row or column; and a cell that is in both CollisionMap
\* and VisitedMap is traversable.
C19_AgentBoxTraversible ==
  Planned =>
    \A i \in DOMAIN cycle.runs : \A c \in LocalCells :
      /\ (Abs(c[1] - cycle.start[1]) <= AgentCellRadius
           /\ Abs(c[2] - cycle.start[2]) <= AgentCellRadius) =>
             cycle.runs[i].traversible[<< c[1] + 1, c[2] + 1 >>] = 1
      /\ (collision_map[WindowCell(cycle.window, c)] = 1
           /\ visited_map[WindowCell(cycle.window, c)] = 1) =>
             cycle.runs[i].traversible[<< c[1] + 1, c[2] + 1 >>] = 1

\* C20: the traversability grid handed to the distance solver has a 1-cell
\* boundary frame of impassable cells, and the goal mask is padded to the same
\* shape with a 1-cell frame of zeros.
C20_ImpassableFrame ==
  Planned =>
    \A i \in DOMAIN cycle.runs :
      /\ DOMAIN cycle.runs[i].traversible = PaddedCells
      /\ DOMAIN cycle.runs[i].goal_map = PaddedCells
      /\ \A c \in PaddedCells :
           (c[1] \in {0, LocalSize + 1} \/ c[2] \in {0, LocalSize + 1}) =>
             /\ cycle.runs[i].goal_map[c] = 0
             /\ cycle.runs[i].traversible[c] = 0

\* C21: for every pose passed to plan, also one whose grid coordinates fall
\* outside the local window, the agent cell plan uses is the pose's cell clamped
\* into the obstacle grid, and that cell, at the window offset, is the one cell
\* the call marks in VisitedMap.
C21_PoseClamped ==
  [][cycle'.kind \in {"plan", "raised"} =>
       \E r \in {TruncDiv(curr_pose'[2] - cycle'.window[1] * MapResolution, MapResolution)},
          k \in {TruncDiv(curr_pose'[1] - cycle'.window[2] * MapResolution, MapResolution)} :
         /\ cycle'.start \in LocalCells
         /\ cycle'.start[1] = IF r < 0 THEN 0
                              ELSE IF r > LocalSize - 1 THEN LocalSize - 1 ELSE r
         /\ cycle'.start[2] = IF k < 0 THEN 0
                              ELSE IF k > LocalSize - 1 THEN LocalSize - 1 ELSE k
         /\ visited_map'[WindowCell(cycle'.window, cycle'.start)] = 1
         /\ \A c \in GlobalCells :
              visited_map'[c] # visited_map[c] =>
                c = WindowCell(cycle'.window, cycle'.start)]_vars

\* plan completed on a pose that lies outside the local window on both axes and
\* marked the clamped cell
C21_Witness ==
  /\ cycle.kind = "plan"
  /\ TruncDiv(curr_pose[2] - cycle.window[1] * MapResolution, MapResolution) > LocalSize - 1
  /\ TruncDiv(curr_pose[1] - cycle.window[2] * MapResolution, MapResolution) < 0
  /\ cycle.start = << LocalSize - 1, 0 >>
  /\ visited_map[WindowCell(cycle.window, cycle.start)] = 1

====
